---- MODULE Spec2Model ----
(***************************************************************************)
(* A model of the Bsky-Bot repository:                                     *)
(*   src/helloworldbot.py     TechNewsBot: generation loop, dedup history  *)
(*   src/polybot/bot.py       Bot: run, multi-backend post                 *)
(*   src/polybot/service.py   Service / Bluesky: auth, post, do_wrapped    *)
(*                                                                         *)
(* Texts are sequences of one-character strings.  Python's None is the     *)
(* one-element sequence <<"None">>, which no text can equal.               *)
(***************************************************************************)
EXTENDS Integers, Sequences, FiniteSets, TLC

VARIABLES
    pc,                      \* control position of the running program
    live,                    \* Bot.args.live / Service.live
    config,                  \* names of the services that have a config section
    services,                \* Bot.services, in configuration order
    connected,               \* Bluesky.connected
    login_ratelimit_expiry,  \* Bluesky.login_ratelimit_expiry
    now,                     \* the wall clock read by time() / datetime.now()
    history_file,            \* post_history.json on disk
    post_history,            \* TechNewsBot.post_history['posts']
    attempt,                 \* loop index of generate_post
    post,                    \* local `post` of TechNewsBot.main
    cycle,                   \* number of main-loop iterations started
    botcall,                 \* the running Bot.post call: its arguments and locals
    svccall,                 \* the running Service.post call: its arguments and locals
    obs                      \* observations of the current cycle (history variables)

vars == <<pc, live, config, services, connected, login_ratelimit_expiry, now,
          history_file, post_history, attempt, post, cycle, botcall, svccall, obs>>

----------------------------------------------------------------------------
(* Bounds of the model *)

MaxCycles == 2          \* main-loop iterations explored
MaxResetAhead == 2      \* how far ahead of the clock a 429 reset time may lie

----------------------------------------------------------------------------
(* Program constants *)

max_attempts == 5            \* helloworldbot.py:71
PostLimit == 300             \* helloworldbot.py:107
PostCut == 297               \* helloworldbot.py:108
HistoryCap == 1000           \* helloworldbot.py:65
RetrySleep == 300            \* helloworldbot.py:119
CycleSleep == 3600           \* helloworldbot.py:123
ErrorSleep == 60             \* helloworldbot.py:127
RateLimited == 429           \* service.py:157

None == <<"None">>

Min(a, b) == IF a < b THEN a ELSE b
Max(a, b) == IF a > b THEN a ELSE b

Rep(c, n) == [i \in 1..n |-> c]

----------------------------------------------------------------------------
(* Text operations of the Python standard library used by the code *)

\* str.lower(), character by character
LowerChar(c) ==
    CASE c = "A" -> "a"
      [] c = "B" -> "b"
      [] c = "X" -> "x"
      [] OTHER -> c

lower(s) == [i \in 1..Len(s) |-> LowerChar(s[i])]

IsSpace(c) == c = " "

\* str.strip(): drop leading and trailing whitespace
strip(s) ==
    LET keep == {i \in 1..Len(s) : ~IsSpace(s[i])}
    IN  IF keep = {} THEN <<>>
        ELSE LET lo == CHOOSE i \in keep : \A j \in keep : i <= j
                 hi == CHOOSE i \in keep : \A j \in keep : i >= j
             IN  SubSeq(s, lo, hi)

\* hashlib.md5(data).hexdigest(): a digest of the bytes, taken to be free of
\* collisions; the digest is tagged so that it is not itself a text.
md5_hexdigest(s) == <<"md5">> \o s

\* Python slices s[:n] and s[-n:]
Prefix(s, n) == SubSeq(s, 1, Min(n, Len(s)))
Suffix(s, n) == SubSeq(s, Max(1, Len(s) - n + 1), Len(s))

----------------------------------------------------------------------------
(* Dedup history: TechNewsBot.load_post_history .. add_to_history *)

Absent == [state |-> "absent", posts |-> <<>>]
Unreadable == [state |-> "unreadable", posts |-> <<>>]

\* load_post_history: a missing file gives {'posts': []}; a failed read or parse
\* is caught and gives {'posts': []} too.  exc: what the call raises.
load_post_history(file) ==
    [posts |-> IF file.state = "ok" THEN file.posts ELSE <<>>, exc |-> "none"]

\* save_post_history: open(..., 'w') then json.dump; every exception is caught.
\*   "ok"         the snapshot is rewritten in full
\*   "open_fails" open raises: the file on disk is left as it was
\*   "dump_fails" the write fails after open truncated the file
SaveOutcomes == {"ok", "open_fails", "dump_fails"}

\* a save that lets the failure out
save_post_history_raising(file, posts, outcome) ==
    [file |-> CASE outcome = "ok" -> [state |-> "ok", posts |-> posts]
                [] outcome = "open_fails" -> file
                [] outcome = "dump_fails" -> Unreadable,
     exc |-> IF outcome = "ok" THEN "none" ELSE "OSError"]

save_post_history(file, posts, outcome) ==
    [file |-> CASE outcome = "ok" -> [state |-> "ok", posts |-> posts]
                [] outcome = "open_fails" -> file
                [] outcome = "dump_fails" -> Unreadable,
     exc |-> "none"]

PostHash(text) == md5_hexdigest(lower(text))

\* a comparison that forgets to normalise the text
is_duplicate_exact(posts, text) ==
    \E i \in 1..Len(posts) : posts[i].hash = md5_hexdigest(text)

is_duplicate(posts, text) ==
    \E i \in 1..Len(posts) : posts[i].hash = PostHash(text)

post_data(text, t) == [content |-> text, hash |-> PostHash(text), timestamp |-> t]

\* a cut that keeps the oldest entries instead
KeepFirst(appended) ==
    IF Len(appended) > HistoryCap THEN Prefix(appended, HistoryCap) ELSE appended

\* the list after append and the cut to the last 1000
KeepLast(appended) ==
    IF Len(appended) > HistoryCap THEN Suffix(appended, HistoryCap) ELSE appended

\* add_to_history at clock t: append, cut, save
add_to_history(posts, file, text, t, outcome) ==
    LET kept == KeepLast(Append(posts, post_data(text, t)))
        saved == save_post_history(file, kept, outcome)
    IN  [posts |-> kept, file |-> saved.file, exc |-> saved.exc]

----------------------------------------------------------------------------
(* Bluesky.auth *)

\* What Client.login can answer: success, a RequestException carrying an HTTP
\* status (429 comes with a ratelimit-reset header), or another exception.
LoginOk == [kind |-> "ok", status |-> 200, reset |-> 0]
LoginStatus(code, reset) == [kind |-> "RequestException", status |-> code, reset |-> reset]
LoginNetworkError == [kind |-> "NetworkError", status |-> 0, reset |-> 0]

OtherStatuses == {401}

LoginOutcomes(t) ==
    {LoginOk, LoginNetworkError}
        \cup {LoginStatus(RateLimited, r) : r \in t..(t + MaxResetAhead)}
        \cup {LoginStatus(c, 0) : c \in OtherStatuses}

\* auth() with the back-off test off by one: no login at the reset time itself
auth_inclusive(conn, expiry, t, login) ==
    IF expiry >= t /\ expiry > 0
    THEN [connected |-> conn, expiry |-> expiry, attempted |-> FALSE, exc |-> "none"]
    ELSE IF login.kind = "ok"
    THEN [connected |-> TRUE, expiry |-> expiry, attempted |-> TRUE, exc |-> "none"]
    ELSE IF login.kind = "RequestException" /\ login.status = RateLimited
    THEN [connected |-> conn, expiry |-> login.reset, attempted |-> TRUE, exc |-> "none"]
    ELSE [connected |-> conn, expiry |-> expiry, attempted |-> TRUE, exc |-> login.kind]

\* auth() that treats every failed login like a rate limit and returns
auth_swallowing(conn, expiry, t, login) ==
    IF expiry > t
    THEN [connected |-> conn, expiry |-> expiry, attempted |-> FALSE, exc |-> "none"]
    ELSE IF login.kind = "ok"
    THEN [connected |-> TRUE, expiry |-> expiry, attempted |-> TRUE, exc |-> "none"]
    ELSE [connected |-> conn, expiry |-> login.reset, attempted |-> TRUE, exc |-> "none"]

\* auth() run on a handle with the given connected flag and expiry, at clock t,
\* when the login (if attempted) is answered by `login`.
\*   attempted: whether Client.login was called;  exc: what auth() raises
auth(conn, expiry, t, login) ==
    IF expiry > t
    THEN [connected |-> conn, expiry |-> expiry, attempted |-> FALSE, exc |-> "none"]
    ELSE IF login.kind = "ok"
    THEN [connected |-> TRUE, expiry |-> expiry, attempted |-> TRUE, exc |-> "none"]
    ELSE IF login.kind = "RequestException" /\ login.status = RateLimited
    THEN [connected |-> conn, expiry |-> login.reset, attempted |-> TRUE, exc |-> "none"]
    ELSE [connected |-> conn, expiry |-> expiry, attempted |-> TRUE, exc |-> login.kind]

----------------------------------------------------------------------------
(* Python call binding and the shapes of Bot.post / Service.post *)

ALL_SERVICES == <<"bluesky">>

\* the parameters of Service.post after self
ServicePostParams == <<"status", "wrap", "images", "lat", "lon", "in_reply_to_id">>

\* the positional arguments Bot.post passes to service.post
BotPostArgs(c, reply) ==
    <<c.status, c.wrap, c.imagefile, c.mime_type, c.lat, c.lon, reply>>

\* binding positional arguments to parameters: too many raise TypeError
BindPositional(params, args) ==
    IF Len(args) > Len(params) THEN "TypeError" ELSE "none"

\* a Python dict, and d[key] on a value that is a dict or None or a reference:
\* a missing key (or a value without that key) raises
Dict(m) == <<"dict", m>>

Subscript(d, key) ==
    IF d[1] = "dict" /\ key \in DOMAIN d[2]
    THEN [value |-> d[2][key], exc |-> "none"]
    ELSE [value |-> None, exc |-> "KeyError"]

Str(t) == [kind |-> "str", v |-> t]
List(l) == [kind |-> "list", v |-> l]

\* a check that lets an empty list through
BotPostValidate_allowing_empty(status, wrap) ==
    IF status.kind = "list" /\ wrap THEN "ValueError" ELSE "none"

\* the checks Bot.post makes on its arguments before the loop
BotPostValidate(status, wrap) ==
    IF status.kind = "list" /\ (wrap \/ Len(status.v) = 0) THEN "ValueError" ELSE "none"

EmptyMap == [n \in {} |-> None]

NoBotCall ==
    [status |-> Str(<<>>), wrap |-> FALSE, imagefile |-> None, mime_type |-> None,
     in_reply_to_id |-> None, lat |-> None, lon |-> None, out |-> EmptyMap, idx |-> 0]

NoSvcCall == [active |-> FALSE]

----------------------------------------------------------------------------
(* Observations of one main cycle *)

NoAuth == [called |-> FALSE, time |-> 0, attempted |-> FALSE, login |-> LoginOk,
           exc |-> "none", expiry_before |-> 0, connected_before |-> FALSE,
           connected_after |-> FALSE, reset_before |-> -1]

NoObs ==
    [accepted |-> None,      \* what generate_post returned in this cycle
     handed |-> None,        \* the text main passed to Bot.post
     dup_handed |-> FALSE,   \* whether that text was a duplicate when passed
     connected_at_post |-> FALSE,
     gen_calls |-> 0,        \* completions requested by generate_post
     gen_failed |-> FALSE,   \* whether a completion request raised
     tried |-> <<>>,         \* services whose post Bot.post called
     received |-> <<>>,      \* the in_reply_to_id each Service.post was entered with
     sent |-> <<>>,          \* texts given to the network client
     post_done |-> FALSE,    \* Bot.post returned or raised
     raised |-> "none",      \* the exception that left Bot.post
     recorded |-> FALSE,     \* add_to_history ran
     writes |-> 0,           \* snapshot writes attempted
     save |-> "none",        \* how the snapshot write ended
     post_errors |-> {},     \* services whose post raised PostError
     do_posts |-> 0,         \* do_post calls of the running Service.post
     result |-> None,        \* what Service.post returned
     refs |-> <<>>,          \* what the do_post calls of the running post returned
     auth_calls |-> 0,       \* auth() calls of the running operation
     last429 |-> -1,         \* reset time of the latest 429 answer to a login
     auth |-> NoAuth,        \* the latest auth() call
     target |-> None,        \* the reply target the caller gave to Bot.post
     loaded |-> 0,           \* entries the constructor loaded
     log |-> <<>>]           \* every entry loaded or appended, in order

AuthRecord(t, conn, expiry, attempted, login, exc, conn_after, last429) ==
    [called |-> TRUE, time |-> t, attempted |-> attempted, login |-> login,
     exc |-> exc, expiry_before |-> expiry, connected_before |-> conn,
     connected_after |-> conn_after, reset_before |-> last429]

\* the reset time of the latest 429 answer, -1 while there was none
Last429After(last429, attempted, login) ==
    IF attempted /\ login.kind = "RequestException" /\ login.status = RateLimited
    THEN login.reset ELSE last429

----------------------------------------------------------------------------
(* What the generator (the chat completion) can answer: a text, or a failure *)

GenFailure == <<"Exception">>

tAB == <<"a", "b">>
tAb == <<"A", "b">>
tPadded == <<" ", "b", "a", " ">>
tBlank == <<" ">>
tLong == Rep("x", PostCut) \o <<"a", "b", "c", "d">>
tFull == Rep("X", PostLimit)

Completions == {<<>>, tBlank, tAB, tAb, tPadded, tLong, tFull}

\* snapshots an earlier run of the program can have left on disk
Snapshots ==
    {Absent, Unreadable,
     [state |-> "ok", posts |-> <<>>],
     [state |-> "ok", posts |-> <<post_data(tAB, 0)>>]}

----------------------------------------------------------------------------
(* The program: TechNewsBot('technewsbot').run() *)

Init ==
    /\ pc = "construct"
    /\ live \in BOOLEAN
    /\ config \in SUBSET {ALL_SERVICES[i] : i \in 1..Len(ALL_SERVICES)}
    /\ services = <<>>
    /\ connected = FALSE
    /\ login_ratelimit_expiry = 0
    /\ now = 0
    /\ history_file \in Snapshots
    /\ post_history = <<>>
    /\ attempt = 0
    /\ post = None
    /\ cycle = 0
    /\ botcall = NoBotCall
    /\ svccall = NoSvcCall
    /\ obs = NoObs

\* TechNewsBot.__init__: load the history
Construct ==
    /\ pc = "construct"
    /\ LET loaded == load_post_history(history_file)
       IN  /\ post_history' = loaded.posts
           /\ pc' = IF loaded.exc = "none" THEN "run" ELSE "crashed"
    /\ UNCHANGED <<live, config, services, connected, login_ratelimit_expiry, now,
                   history_file, attempt, post, cycle, botcall, svccall, obs>>

\* Bot.run up to the call of main: one handle per configured service, auth() on
\* each; an exception of auth() leaves run; live with no service returns.
Run(login) ==
    /\ pc = "run"
    /\ LET configured == SelectSeq(ALL_SERVICES, LAMBDA n : n \in config)
           a == auth(FALSE, 0, now, login)
       IN  IF configured = <<>>
           THEN /\ login = LoginOk
                /\ services' = <<>>
                /\ pc' = IF live THEN "exit" ELSE "generate"
                /\ cycle' = IF live THEN cycle ELSE 1
                /\ UNCHANGED <<connected, login_ratelimit_expiry, obs>>
           ELSE /\ connected' = a.connected
                /\ login_ratelimit_expiry' = a.expiry
                /\ services' = IF a.exc = "none" THEN configured ELSE <<>>
                /\ pc' = IF a.exc = "none" THEN "generate" ELSE "crashed"
                /\ cycle' = IF a.exc = "none" THEN 1 ELSE cycle
                /\ obs' = [obs EXCEPT !.auth_calls = 1,
                             !.last429 = Last429After(@, a.attempted, login),
                             !.auth = AuthRecord(now, FALSE, 0, a.attempted, login,
                                                 a.exc, a.connected, -1)]
    /\ UNCHANGED <<live, config, now, history_file, post_history, attempt, post,
                   botcall, svccall>>

\* a generate_post whose loop runs once too often
Generate_one_more(c) ==
    /\ pc = "generate"
    /\ LET p == strip(c)
           ok == c # GenFailure /\ p # <<>> /\ ~is_duplicate(post_history, p)
           last == attempt + 1 > max_attempts
       IN  /\ post' = IF ok THEN p ELSE None
           /\ pc' = IF ok THEN "post"
                    ELSE IF c = GenFailure \/ last THEN "no_post" ELSE "generate"
           /\ attempt' = IF ok \/ c = GenFailure THEN attempt ELSE attempt + 1
           /\ obs' = [obs EXCEPT !.gen_calls = @ + 1,
                                 !.gen_failed = c = GenFailure,
                                 !.accepted = IF ok THEN p ELSE None]
    /\ UNCHANGED <<live, config, services, connected, login_ratelimit_expiry, now,
                   history_file, post_history, cycle, botcall, svccall>>

\* generate_post: one iteration of its loop, and the return it leads to
Generate(c) ==
    /\ pc = "generate"
    /\ LET p == strip(c)
           ok == c # GenFailure /\ p # <<>> /\ ~is_duplicate(post_history, p)
           last == attempt + 1 >= max_attempts
       IN  /\ post' = IF ok THEN p ELSE None
           /\ pc' = IF ok THEN "post"
                    ELSE IF c = GenFailure \/ last THEN "no_post" ELSE "generate"
           /\ attempt' = IF ok \/ c = GenFailure THEN attempt ELSE attempt + 1
           /\ obs' = [obs EXCEPT !.gen_calls = @ + 1,
                                 !.gen_failed = c = GenFailure,
                                 !.accepted = IF ok THEN p ELSE None]
    /\ UNCHANGED <<live, config, services, connected, login_ratelimit_expiry, now,
                   history_file, post_history, cycle, botcall, svccall>>

\* main: the cut to 300 characters
Truncate(text) ==
    IF Len(text) > PostLimit THEN Prefix(text, PostCut) \o <<".", ".", ".">> ELSE text

\* main calls self.post(post); Bot.post checks its arguments and starts its loop
MainPost ==
    /\ pc = "post"
    /\ post' = Truncate(post)
    /\ LET c == [NoBotCall EXCEPT !.status = Str(post'), !.idx = 1]
           exc == BotPostValidate(c.status, c.wrap)
       IN  /\ botcall' = c
           /\ pc' = IF exc = "none" THEN "bot_post" ELSE "error"
           /\ obs' = [obs EXCEPT !.handed = post',
                                 !.dup_handed = is_duplicate(post_history, post'),
                                 !.connected_at_post = connected,
                                 !.post_done = exc # "none",
                                 !.raised = exc]
    /\ UNCHANGED <<live, config, services, connected, login_ratelimit_expiry, now,
                   history_file, post_history, attempt, cycle, svccall>>

\* Bot.post: one iteration of `for service in self.services`, or the return
BotPostNext ==
    /\ pc = "bot_post"
    /\ IF botcall.idx > Len(services)
       THEN /\ pc' = "record"
            /\ obs' = [obs EXCEPT !.post_done = TRUE]
            /\ UNCHANGED <<botcall, svccall>>
       ELSE LET name == services[botcall.idx]
                lookup == IF botcall.in_reply_to_id # None
                          THEN Subscript(botcall.in_reply_to_id, name)
                          ELSE [value |-> None, exc |-> "none"]
                reply == lookup.value
                bound == IF lookup.exc # "none" THEN lookup.exc
                         ELSE BindPositional(ServicePostParams,
                                             BotPostArgs(botcall, reply))
            IN  /\ botcall' = [botcall EXCEPT !.in_reply_to_id = reply]
                /\ pc' = IF bound = "none" THEN "service_post" ELSE "error"
                /\ svccall' = IF bound = "none"
                              THEN [active |-> TRUE, args |-> BotPostArgs(botcall, reply)]
                              ELSE svccall
                /\ obs' = [obs EXCEPT !.tried = Append(@, name),
                                      !.received = IF bound = "none"
                                                   THEN Append(@, reply) ELSE @,
                                      !.post_done = bound # "none",
                                      !.raised = bound]
    /\ UNCHANGED <<live, config, services, connected, login_ratelimit_expiry, now,
                   history_file, post_history, attempt, post, cycle>>

\* main: add_to_history(post), with the snapshot write it ends with
Record(outcome) ==
    /\ pc = "record"
    /\ LET r == add_to_history(post_history, history_file, post, now, outcome)
       IN  /\ post_history' = r.posts
           /\ history_file' = r.file
           /\ pc' = IF r.exc = "none" THEN "sleep" ELSE "error"
           /\ obs' = [obs EXCEPT !.recorded = TRUE, !.writes = @ + 1,
                                 !.save = outcome]
    /\ UNCHANGED <<live, config, services, connected, login_ratelimit_expiry, now,
                   attempt, post, cycle, botcall, svccall>>

\* the three sleeps of main, each followed by the next iteration
NextCycle(from, seconds) ==
    /\ pc = from
    /\ cycle < MaxCycles
    /\ now' = now + seconds
    /\ cycle' = cycle + 1
    /\ pc' = "generate"
    /\ attempt' = 0
    /\ post' = None
    /\ botcall' = NoBotCall
    /\ obs' = NoObs
    /\ UNCHANGED <<live, config, services, connected, login_ratelimit_expiry,
                   history_file, post_history, svccall>>

SleepCycle == NextCycle("sleep", CycleSleep)
SleepRetry == NextCycle("no_post", RetrySleep)

\* an except branch that lets the failure end the program
SleepError_giving_up ==
    /\ pc = "error"
    /\ pc' = "crashed"
    /\ UNCHANGED <<live, config, services, connected, login_ratelimit_expiry, now,
                   history_file, post_history, attempt, post, cycle, botcall, svccall,
                   obs>>

SleepError == NextCycle("error", ErrorSleep)

MainPcs == {"generate", "post", "bot_post", "record", "sleep", "no_post", "error"}

\* KeyboardInterrupt: main is left, Bot.run saves the (empty) state and returns
Interrupt ==
    /\ pc \in MainPcs
    /\ pc' = "exit"
    /\ UNCHANGED <<live, config, services, connected, login_ratelimit_expiry, now,
                   history_file, post_history, attempt, post, cycle, botcall, svccall,
                   obs>>

Next ==
    \/ Construct
    \/ \E login \in LoginOutcomes(now) : Run(login)
    \/ \E c \in Completions \cup {GenFailure} : Generate(c)
    \/ MainPost
    \/ BotPostNext
    \/ \E outcome \in SaveOutcomes : Record(outcome)
    \/ SleepCycle
    \/ SleepRetry
    \/ SleepError
    \/ Interrupt

Spec == Init /\ [][Next]_vars

\* the program with its scheduling: a sleep of main returns and the loop goes
\* on, unless the process is interrupted
SpecLoop ==
    Spec /\ WF_vars(SleepError) /\ WF_vars(SleepRetry) /\ WF_vars(SleepCycle)

----------------------------------------------------------------------------
(* textwrap.wrap(text, width) with its defaults, for texts of words and spaces *)

IsBlank(chunk) == \A i \in 1..Len(chunk) : IsSpace(chunk[i])

\* TextWrapper._split: maximal runs of spaces and of other characters
ChunkStarts(s) ==
    {i \in 1..Len(s) : i = 1 \/ IsSpace(s[i]) # IsSpace(s[i - 1])}

ChunkAt(s, i) ==
    LET later == {j \in ChunkStarts(s) : j > i}
        stop == IF later = {} THEN Len(s)
                ELSE (CHOOSE j \in later : \A k \in later : j <= k) - 1
    IN  SubSeq(s, i, stop)

RECURSIVE ChunksFrom(_, _)
ChunksFrom(s, starts) ==
    IF starts = {} THEN <<>>
    ELSE LET i == CHOOSE j \in starts : \A k \in starts : j <= k
         IN  <<ChunkAt(s, i)>> \o ChunksFrom(s, starts \ {i})

Chunks(s) == ChunksFrom(s, ChunkStarts(s))

RECURSIVE Join(_)
Join(chunks) == IF chunks = <<>> THEN <<>> ELSE Head(chunks) \o Join(Tail(chunks))

\* the inner loop of _wrap_chunks: take chunks while they fit
RECURSIVE FillLine(_, _, _, _)
FillLine(chunks, cur_line, cur_len, width) ==
    IF chunks # <<>> /\ cur_len + Len(Head(chunks)) <= width
    THEN FillLine(Tail(chunks), Append(cur_line, Head(chunks)),
                  cur_len + Len(Head(chunks)), width)
    ELSE [line |-> cur_line, len |-> cur_len, rest |-> chunks]

\* _handle_long_word with break_long_words: cut the chunk at the space left
HandleLongWord(f, width) ==
    LET space_left == IF width < 1 THEN 1 ELSE width - f.len
        chunk == Head(f.rest)
    IN  [line |-> Append(f.line, Prefix(chunk, space_left)),
         len |-> f.len + Min(space_left, Len(chunk)),
         rest |-> <<SubSeq(chunk, space_left + 1, Len(chunk))>> \o Tail(f.rest)]

RECURSIVE WrapChunks(_, _, _)
WrapChunks(chunks, width, lines) ==
    IF chunks = <<>> THEN lines
    ELSE LET start == IF IsBlank(Head(chunks)) /\ lines # <<>>
                      THEN Tail(chunks) ELSE chunks
             f == FillLine(start, <<>>, 0, width)
             g == IF f.rest # <<>> /\ Len(Head(f.rest)) > width
                  THEN HandleLongWord(f, width) ELSE f
             kept == IF g.line # <<>> /\ IsBlank(g.line[Len(g.line)])
                     THEN SubSeq(g.line, 1, Len(g.line) - 1) ELSE g.line
         IN  WrapChunks(g.rest, width,
                        IF kept # <<>> THEN Append(lines, Join(kept)) ELSE lines)

textwrap_wrap(text, width) == WrapChunks(Chunks(text), width, <<>>)

----------------------------------------------------------------------------
(* Service and Bluesky *)

ellipsis_length == 1         \* service.py:30
max_image_count == 4         \* service.py:35
max_length == 300            \* service.py:131
max_length_image == 300      \* service.py:132

Ellipsis == "U+2026"         \* the one character "\u2026"

StrongRef(id) == <<"strong_ref", id>>
ReplyDict(root, parent) == <<"reply", root, parent>>

\* do_post: a reply reference becomes ReplyRef(parent=..., root=...), None stays
ReplyRef(in_reply_to_id) ==
    IF in_reply_to_id = None THEN None
    ELSE <<"ReplyRef", "parent", in_reply_to_id[3], "root", in_reply_to_id[2]>>

\* sorted(status, key=len): a stable sort by length
RECURSIVE InsertByLen(_, _)
InsertByLen(sorted, s) ==
    IF sorted = <<>> THEN <<s>>
    ELSE IF Len(s) < Len(Head(sorted)) THEN <<s>> \o sorted
    ELSE <<Head(sorted)>> \o InsertByLen(Tail(sorted), s)

RECURSIVE SortedByLen(_)
SortedByLen(list) ==
    IF list = <<>> THEN <<>>
    ELSE InsertByLen(SortedByLen(SubSeq(list, 1, Len(list) - 1)), list[Len(list)])

RECURSIVE PickLast(_, _, _)
PickLast(sorted, max_len, picked) ==
    IF sorted = <<>> THEN picked
    ELSE PickLast(Tail(sorted), max_len,
                  IF Len(Head(sorted)) < max_len THEN Head(sorted) ELSE picked)

\* a choice that forgets to sort the candidates by length
longest_allowed_unsorted(status, images) ==
    LET max_len == IF images # <<>> THEN max_length_image ELSE max_length
    IN  PickLast(status, max_len, status[1])

longest_allowed(status, images) ==
    LET max_len == IF images # <<>> THEN max_length_image ELSE max_length
    IN  PickLast(SortedByLen(status), max_len, status[1])

\* a wrap that leaves no room for the ellipsis
WrappedLines_full_width(status, images) ==
    LET max_len == IF images # <<>> THEN max_length_image ELSE max_length
    IN  IF Len(status) > max_len
        THEN textwrap_wrap(status, max_len)
        ELSE <<status>>

\* the lines do_wrapped posts, before the ellipses are added
WrappedLines(status, images) ==
    LET max_len == IF images # <<>> THEN max_length_image ELSE max_length
    IN  IF Len(status) > max_len
        THEN textwrap_wrap(status, max_len - ellipsis_length)
        ELSE <<status>>

\* the ellipses do_wrapped adds to a line
Decorate(line, first, count) ==
    LET headed == IF first /\ count > 1 THEN Append(line, Ellipsis) ELSE line
    IN  IF ~first THEN <<Ellipsis>> \o headed ELSE headed

\* a do_post that gives up the session when a send fails
do_post_dropping_session(conn, expiry, t, status, images, in_reply_to_id, login, send, id) ==
    LET a == IF conn
             THEN [connected |-> conn, expiry |-> expiry, attempted |-> FALSE,
                   exc |-> "none"]
             ELSE auth(conn, expiry, t, login)
        base == [connected |-> a.connected, expiry |-> a.expiry, auth_called |-> ~conn,
                 attempted |-> a.attempted, auth_exc |-> a.exc,
                 sent |-> <<>>, out |-> None, exc |-> "none"]
        request == [text |-> status, images |-> images,
                    reply |-> ReplyRef(in_reply_to_id)]
    IN  IF a.exc # "none" THEN [base EXCEPT !.exc = a.exc]
        ELSE IF ~a.connected THEN base
        ELSE IF send = "ok"
        THEN [base EXCEPT !.sent = <<request>>, !.out = StrongRef(id)]
        ELSE [base EXCEPT !.sent = <<request>>, !.exc = "PostError",
                          !.connected = FALSE]

\* Bluesky.do_post at clock t.  login answers the login of the lazy auth(), send
\* is how the network client ends ("ok" or "fails"), id names the created post.
do_post(conn, expiry, t, status, images, in_reply_to_id, login, send, id) ==
    LET a == IF conn
             THEN [connected |-> conn, expiry |-> expiry, attempted |-> FALSE,
                   exc |-> "none"]
             ELSE auth(conn, expiry, t, login)
        base == [connected |-> a.connected, expiry |-> a.expiry, auth_called |-> ~conn,
                 attempted |-> a.attempted, auth_exc |-> a.exc,
                 sent |-> <<>>, out |-> None, exc |-> "none"]
        request == [text |-> status, images |-> images,
                    reply |-> ReplyRef(in_reply_to_id)]
    IN  IF a.exc # "none" THEN [base EXCEPT !.exc = a.exc]
        ELSE IF ~a.connected THEN base
        ELSE IF send = "ok"
        THEN [base EXCEPT !.sent = <<request>>, !.out = StrongRef(id)]
        ELSE [base EXCEPT !.sent = <<request>>, !.exc = "PostError"]

\* a do_wrapped that makes every fragment the root of the next
NextReply_rerooting(in_reply_to_id, out, first) ==
    IF out = None
    THEN [reply |-> in_reply_to_id, exc |-> "AttributeError"]
    ELSE [reply |-> ReplyDict(out, out), exc |-> "none"]

\* do_wrapped after a fragment's do_post returned `out`: the next reply reference
NextReply(in_reply_to_id, out, first) ==
    IF out = None
    THEN [reply |-> in_reply_to_id, exc |-> "AttributeError"]
    ELSE IF first
    THEN [reply |-> ReplyDict(out, out), exc |-> "none"]
    ELSE [reply |-> ReplyDict(in_reply_to_id[2], out), exc |-> "none"]

----------------------------------------------------------------------------
(* A Bluesky handle used through its own operations: auth() once after        *)
(* construction, as Bot.run does, then Service.post calls while time passes.  *)

MaxCalls == 1           \* Service.post calls explored
MaxTime == 2            \* clock ticks explored

tWide == Rep("x", 2 * max_length)
tABA == <<"a", "b", "a">>

Statuses == {Str(tAB), Str(tWide), List(<<tAB, tFull, tABA>>)}

ImageLists == {<<>>, <<1, 2, 3, 4, 5>>}

ReplyTargets == {None, ReplyDict(StrongRef(<<0, 0>>), StrongRef(<<0, 1>>))}

\* the requests Bot.post lets through: no wrap with a list
Requests ==
    {r \in [status : Statuses, wrap : BOOLEAN, images : ImageLists,
            in_reply_to_id : ReplyTargets] : r.wrap => r.status.kind = "str"}

InitService ==
    /\ pc = "svc_new"
    /\ live \in BOOLEAN
    /\ config = {"bluesky"}
    /\ services = <<>>
    /\ connected = FALSE
    /\ login_ratelimit_expiry = 0
    /\ now = 0
    /\ history_file = Absent
    /\ post_history = <<>>
    /\ attempt = 0
    /\ post = None
    /\ cycle = 0
    /\ botcall = NoBotCall
    /\ svccall = NoSvcCall
    /\ obs = NoObs

\* svc.auth() after construction
SvcAuth(login) ==
    /\ pc = "svc_new"
    /\ LET a == auth(connected, login_ratelimit_expiry, now, login)
       IN  /\ connected' = a.connected
           /\ login_ratelimit_expiry' = a.expiry
           /\ obs' = [obs EXCEPT
                        !.auth_calls = 1,
                        !.raised = a.exc,
                        !.last429 = Last429After(@, a.attempted, login),
                        !.auth = AuthRecord(now, connected, login_ratelimit_expiry,
                                            a.attempted, login, a.exc, a.connected,
                                            obs.last429)]
    /\ pc' = "svc_idle"
    /\ UNCHANGED <<live, config, services, now, history_file, post_history, attempt,
                   post, cycle, botcall, svccall>>

\* Image.resize_to_target(max_image_size, max_image_pixels): the image scaled
\* down to the limits of the backend
resize_to_target(image) == <<"resized", image>>

\* the list comprehension of Service.post: the first max_image_count images,
\* each resized
PreparedImages(images) ==
    LET cut == Prefix(images, max_image_count)
    IN  [i \in 1..Len(cut) |-> resize_to_target(cut[i])]

\* a post that goes on to do_post whether the handle is live or not
post_plan_ignoring_live(is_live, r) ==
    LET images == PreparedImages(r.images)
        lines == IF r.wrap THEN WrappedLines(r.status.v, images)
                 ELSE IF r.status.kind = "list"
                 THEN <<longest_allowed(r.status.v, images)>>
                 ELSE <<r.status.v>>
    IN  [images |-> images, lines |-> lines, returns |-> lines = <<>>]

\* Service.post up to the first do_post: the images are cut to max_image_count;
\* not live returns at once; wrap computes the lines of do_wrapped, otherwise a
\* list is reduced by longest_allowed.
\*   lines: the texts to give to do_post;  returns: post returns without do_post
post_plan(is_live, r) ==
    LET images == PreparedImages(r.images)
        lines == IF r.wrap THEN WrappedLines(r.status.v, images)
                 ELSE IF r.status.kind = "list"
                 THEN <<longest_allowed(r.status.v, images)>>
                 ELSE <<r.status.v>>
    IN  [images |-> images, lines |-> lines, returns |-> ~is_live \/ lines = <<>>]

\* a do_wrapped that attaches the images to every fragment
FragmentImages_every(images, wrap, first) == images

\* the images of one do_post call: post passes them all, do_wrapped passes them
\* with the first fragment only
FragmentImages(images, wrap, first) ==
    IF wrap /\ ~(images # <<>> /\ first) THEN <<>> ELSE images

\* the call of Service.post(r) on the handle
SvcPost(r) ==
    /\ pc = "svc_idle"
    /\ cycle < MaxCalls
    /\ cycle' = cycle + 1
    /\ LET plan == post_plan(live, r)
       IN  /\ svccall' = IF plan.returns THEN NoSvcCall
                          ELSE [active |-> TRUE, request |-> r,
                                wrap |-> r.wrap, images |-> plan.images,
                                in_reply_to_id |-> r.in_reply_to_id,
                                wrapped |-> plan.lines, i |-> 1, first |-> TRUE]
           /\ pc' = IF plan.returns THEN "svc_idle" ELSE "do_post"
           /\ obs' = [NoObs EXCEPT !.auth = obs.auth, !.last429 = obs.last429,
                                   !.connected_at_post = connected,
                                   !.post_done = plan.returns]
    /\ UNCHANGED <<live, config, services, connected, login_ratelimit_expiry, now,
                   history_file, post_history, attempt, post, botcall>>

\* one do_post of the running Service.post, and what its caller does with the
\* result: post returns it, do_wrapped derives the next reply reference and goes
\* on with the next line.
SvcDoPost(login, send) ==
    /\ pc = "do_post"
    /\ LET c == svccall
           count == Len(c.wrapped)
           line == IF c.wrap THEN Decorate(c.wrapped[c.i], c.first, count)
                   ELSE c.wrapped[c.i]
           images == FragmentImages(c.images, c.wrap, c.first)
           r == do_post(connected, login_ratelimit_expiry, now, line, images,
                        c.in_reply_to_id, login, send, <<cycle, c.i>>)
           n == IF c.wrap /\ r.exc = "none"
                THEN NextReply(c.in_reply_to_id, r.out, c.first)
                ELSE [reply |-> c.in_reply_to_id, exc |-> r.exc]
           over == n.exc # "none" \/ c.i = count
       IN  /\ connected' = r.connected
           /\ login_ratelimit_expiry' = r.expiry
           /\ svccall' = IF over THEN NoSvcCall
                          ELSE [c EXCEPT !.in_reply_to_id = n.reply, !.first = FALSE,
                                         !.i = c.i + 1]
           /\ pc' = IF over THEN "svc_idle" ELSE "do_post"
           /\ obs' = [obs EXCEPT
                        !.do_posts = @ + 1,
                        !.sent = @ \o r.sent,
                        !.post_done = over,
                        !.raised = n.exc,
                        !.result = IF c.wrap THEN None ELSE r.out,
                        !.refs = IF r.out # None THEN Append(@, r.out) ELSE @,
                        !.auth_calls = IF r.auth_called THEN @ + 1 ELSE @,
                        !.last429 = IF r.auth_called
                                    THEN Last429After(@, r.attempted, login) ELSE @,
                        !.auth = IF r.auth_called
                                 THEN AuthRecord(now, connected, login_ratelimit_expiry,
                                                 r.attempted, login, r.auth_exc,
                                                 r.connected, obs.last429)
                                 ELSE @]
    /\ UNCHANGED <<live, config, services, now, history_file, post_history, attempt,
                   post, cycle, botcall>>

\* time passes
Tick ==
    /\ pc \in {"svc_new", "svc_idle", "do_post"}
    /\ now < MaxTime
    /\ now' = now + 1
    /\ UNCHANGED <<pc, live, config, services, connected, login_ratelimit_expiry,
                   history_file, post_history, attempt, post, cycle, botcall, svccall,
                   obs>>

NextService ==
    \/ \E login \in LoginOutcomes(now) : SvcAuth(login)
    \/ \E r \in Requests : SvcPost(r)
    \/ \E login \in IF connected THEN {LoginOk} ELSE LoginOutcomes(now),
          send \in {"ok", "fails"} : SvcDoPost(login, send)
    \/ Tick

SpecService == InitService /\ [][NextService]_vars

----------------------------------------------------------------------------
(* One post on a handle that logged in and whose sends succeed, for candidate *)
(* lists and texts of every shape around the length limit.                    *)

MaxCandidates == 3      \* candidates in a status list
MaxPad == 2             \* spaces between and around the words of a text

t299 == Rep("x", max_length - 1)
t301 == Rep("x", max_length + 1)

FitTexts == {tAB, tABA, t299, tFull, t301}

CandidateLists == UNION {[1..n -> FitTexts] : n \in 1..MaxCandidates}

PickRequests ==
    {[status |-> List(l), wrap |-> FALSE, images |-> im, in_reply_to_id |-> None] :
        l \in CandidateLists, im \in ImageLists}

WordLens == {0, 1, max_length - 2, max_length - 1, max_length, max_length + 1}

\* a word of a's, a run of spaces, a word of b's
WrapText(n, k, m) == Rep("a", n) \o Rep(" ", k) \o Rep("b", m)

WrapTexts ==
    {WrapText(n, k, m) : n \in WordLens, k \in 0..MaxPad, m \in WordLens}
        \cup {Rep(" ", max_length + 1)}

WrapRequests ==
    {[status |-> Str(t), wrap |-> TRUE, images |-> im, in_reply_to_id |-> None] :
        t \in WrapTexts, im \in ImageLists}

NextFit ==
    \/ SvcAuth(LoginOk)
    \/ \E r \in PickRequests \cup WrapRequests : cycle = 0 /\ SvcPost(r)
    \/ SvcDoPost(LoginOk, "ok")

SpecFit == InitService /\ [][NextFit]_vars

----------------------------------------------------------------------------
(* A bot whose main() makes one Bot.post call, with any request *)

\* a reply target: the reference to reply to, under each backend's name
ReplyRefs == ReplyTargets \ {None}
ReplyMaps == {Dict(m) : m \in [{ALL_SERVICES[i] : i \in 1..Len(ALL_SERVICES)} -> ReplyRefs]}

BotStatuses == {Str(tAB), List(<<>>), List(<<tAB>>), List(<<tAB, tFull>>)}

BotRequests ==
    [status : BotStatuses, wrap : BOOLEAN, in_reply_to_id : {None} \cup ReplyMaps]

\* self.post(status, wrap, in_reply_to_id=...) in main: Bot.post checks its
\* arguments and starts its loop
BotPost(r) ==
    /\ pc = "generate"
    /\ LET c == [NoBotCall EXCEPT !.status = r.status, !.wrap = r.wrap,
                                  !.in_reply_to_id = r.in_reply_to_id, !.idx = 1]
           exc == BotPostValidate(c.status, c.wrap)
       IN  /\ botcall' = c
           /\ pc' = IF exc = "none" THEN "bot_post" ELSE "error"
           /\ obs' = [obs EXCEPT !.target = r.in_reply_to_id,
                                 !.connected_at_post = connected,
                                 !.post_done = exc # "none",
                                 !.raised = exc]
    /\ UNCHANGED <<live, config, services, connected, login_ratelimit_expiry, now,
                   history_file, post_history, attempt, post, cycle, svccall>>

NextBot ==
    \/ Construct
    \/ \E login \in LoginOutcomes(now) : Run(login)
    \/ \E r \in BotRequests : BotPost(r)
    \/ BotPostNext

SpecBot == Init /\ [][NextBot]_vars

----------------------------------------------------------------------------
(* The dedup history used through its own operations: the constructor's load, *)
(* then add_to_history calls, one clock tick apart.                           *)

MaxRecords == 2         \* add_to_history calls explored with free texts
MaxFeed == 1002         \* add_to_history calls explored with a fixed feed

taB == <<"a", "B">>
tBA == <<"b", "a">>

HistTexts == {tAB, tAb, taB, tBA}

\* a snapshot of n entries written by earlier runs, the clock having been set
\* back in between: the timestamps fall while the positions rise
Filled(n) == [i \in 1..n |-> post_data(tABA, 0 - i)]

\* a full snapshot whose oldest entry is "ab"
HistSnapshots ==
    Snapshots \cup
        {[state |-> "ok",
          posts |-> <<post_data(tAB, 0 - HistoryCap)>> \o Filled(HistoryCap - 1)]}

FeedSnapshots ==
    {[state |-> "ok", posts |-> <<>>], [state |-> "ok", posts |-> Filled(HistoryCap + 2)]}

\* the text of the n-th call of the fixed feed
FeedText(n) == IF n % 2 = 0 THEN tAB ELSE tBA

InitHist(files) ==
    /\ pc = "hist_new"
    /\ live = FALSE
    /\ config = {}
    /\ services = <<>>
    /\ connected = FALSE
    /\ login_ratelimit_expiry = 0
    /\ now = 0
    /\ history_file \in files
    /\ post_history = <<>>
    /\ attempt = 0
    /\ post = None
    /\ cycle = 0
    /\ botcall = NoBotCall
    /\ svccall = NoSvcCall
    /\ obs = NoObs

\* TechNewsBot.__init__
HLoad ==
    /\ pc = "hist_new"
    /\ LET loaded == load_post_history(history_file)
       IN  /\ post_history' = loaded.posts
           /\ pc' = IF loaded.exc = "none" THEN "hist_idle" ELSE "crashed"
           /\ obs' = [obs EXCEPT !.loaded = Len(loaded.posts), !.log = loaded.posts]
    /\ UNCHANGED <<live, config, services, connected, login_ratelimit_expiry, now,
                   history_file, attempt, post, cycle, botcall, svccall>>

\* add_to_history(text)
HRecord(text, outcome) ==
    /\ pc = "hist_idle"
    /\ LET r == add_to_history(post_history, history_file, text, now, outcome)
       IN  /\ post_history' = r.posts
           /\ history_file' = r.file
           /\ pc' = IF r.exc = "none" THEN "hist_idle" ELSE "crashed"
           /\ obs' = [obs EXCEPT !.recorded = TRUE, !.writes = @ + 1,
                                 !.save = outcome,
                                 !.log = Append(@, post_data(text, now))]
    /\ post' = text
    /\ now' = now + 1
    /\ cycle' = cycle + 1
    /\ UNCHANGED <<live, config, services, connected, login_ratelimit_expiry, attempt,
                   botcall, svccall>>

NextHistory ==
    \/ HLoad
    \/ cycle < MaxRecords /\ \E t \in HistTexts, outcome \in SaveOutcomes : HRecord(t, outcome)

SpecHistory == InitHist(HistSnapshots) /\ [][NextHistory]_vars

NextFeed ==
    \/ HLoad
    \/ cycle < MaxFeed /\ HRecord(FeedText(cycle), "ok")

SpecFeed == InitHist(FeedSnapshots) /\ [][NextFeed]_vars

----------------------------------------------------------------------------
(* Claims about the running program (specification Spec) *)

ServiceSet == {services[i] : i \in 1..Len(services)}

\* C1: in live mode with a configured, Connected backend, a cycle whose
\* generation gave a text has, once Bot.post is over, given that text (cut to
\* at most 300 characters) to the network client exactly once per backend.
C1_PostReachesNetwork ==
    (obs.post_done /\ live /\ services # <<>> /\ obs.connected_at_post)
        => /\ Len(obs.sent) = Len(services)
           /\ \A i \in 1..Len(obs.sent) : obs.sent[i] = obs.handed
           /\ obs.handed = Truncate(obs.accepted)
           /\ Len(obs.handed) <= PostLimit

\* C2: Bot.post calls each backend's post once, in configuration order, does
\* not raise, and returns an entry for every backend whose post raised no
\* PostError and for no other.
C2_FanOutIsolatesFailures ==
    obs.post_done
        => /\ obs.raised = "none"
           /\ obs.tried = services
           /\ DOMAIN botcall.out = ServiceSet \ obs.post_errors

\* C6: the text main passes to Bot.post never has the hash of an entry retained
\* in the history at that moment.
C6_NeverHandsDuplicate ==
    (obs.handed # None /\ ~obs.recorded) => ~is_duplicate(post_history, obs.handed)

\* C7: a cycle in which generate_post returned a text has, when it ends,
\* appended an entry for the text and written the snapshot.
C7_AcceptedIsRecorded ==
    (pc \in {"sleep", "error"} /\ obs.accepted # None)
        => /\ obs.recorded
           /\ obs.writes >= 1
           /\ Len(post_history) > 0
           /\ post_history[Len(post_history)].content = obs.handed

\* C10: a snapshot that is absent or unreadable at start-up gives an empty
\* history and the program goes on; add_to_history returns normally with the
\* new entry in memory whatever becomes of the snapshot write.
C10_PersistenceNeverFatal ==
    /\ pc = "crashed" => obs.auth.called
    /\ (pc = "run" /\ history_file.state # "ok") => post_history = <<>>
    /\ obs.recorded
         => /\ pc \in {"sleep", "exit"}
            /\ Len(post_history) > 0
            /\ post_history[Len(post_history)].content = post
            /\ is_duplicate(post_history, post)

C10_Witness ==
    /\ pc = "sleep" /\ cycle = 1
    /\ obs.recorded /\ obs.save = "open_fails"
    /\ history_file = Unreadable
    /\ post_history = <<post_data(post, now)>>

----------------------------------------------------------------------------
(* Claims about a Bluesky handle (specification SpecService) *)

Is429(login) == login.kind = "RequestException" /\ login.status = RateLimited

\* C3: a post on a live handle that is not Connected calls auth() once per
\* attempted do_post; when the handle is still not Connected (rate limit active,
\* or the login answered 429) nothing is sent and the post returns without
\* raising, with wrap and without.
C3_NotConnectedPostIsSkipped ==
    (obs.post_done /\ live /\ ~obs.connected_at_post /\ obs.do_posts > 0)
        => /\ obs.auth_calls >= 1
           /\ (~connected /\ obs.auth.exc = "none")
                => /\ obs.auth_calls = obs.do_posts
                   /\ obs.sent = <<>>
                   /\ obs.raised = "none"

\* C4: once a login was answered 429 with reset time T (the latest such answer),
\* an auth() call at a clock time before T makes no login attempt and leaves the
\* handle not Connected; an auth() call at or after T attempts the login.
C4_RateLimitBackoff ==
    (obs.auth.called /\ obs.auth.reset_before >= 0)
        => /\ obs.auth.time < obs.auth.reset_before
                => (~obs.auth.attempted /\ ~connected)
           /\ obs.auth.time >= obs.auth.reset_before => obs.auth.attempted

C4_Witness ==
    /\ obs.auth.called /\ obs.auth.reset_before >= 0
    /\ obs.auth.time < obs.auth.reset_before
    /\ ~obs.auth.attempted
    /\ obs.auth_calls >= 1 /\ obs.do_posts >= 1

\* C5: in auth(), a login answered 429 sets the expiry to the reset time, leaves
\* the handle not Connected and returns; any other failure is raised, leaves the
\* handle not Connected and the expiry as it was; only a successful login sets
\* Connected.
C5_LoginFailureHandling ==
    /\ (obs.auth.called /\ obs.auth.attempted)
         => IF Is429(obs.auth.login)
            THEN /\ login_ratelimit_expiry = obs.auth.login.reset
                 /\ ~connected
                 /\ obs.auth.exc = "none"
            ELSE IF obs.auth.login.kind # "ok"
            THEN /\ obs.auth.exc = obs.auth.login.kind
                 /\ ~connected
                 /\ login_ratelimit_expiry = obs.auth.expiry_before
            ELSE connected /\ obs.auth.exc = "none"
    /\ connected
         => obs.auth.called /\ obs.auth.attempted /\ obs.auth.login.kind = "ok"

C5_Witness ==
    /\ obs.auth.called /\ obs.auth.attempted /\ Is429(obs.auth.login)
    /\ obs.auth.expiry_before # obs.auth.login.reset
    /\ login_ratelimit_expiry = obs.auth.login.reset
    /\ ~connected

----------------------------------------------------------------------------
(* Claims about the dedup history (specifications SpecHistory, SpecFeed) *)

SwapCase(c) ==
    CASE c = "a" -> "A" [] c = "A" -> "a"
      [] c = "b" -> "B" [] c = "B" -> "b"
      [] c = "x" -> "X" [] c = "X" -> "x"
      [] OTHER -> c

\* the same text up to the case of each letter
IsCasingVariant(t, u) ==
    /\ Len(t) = Len(u)
    /\ \A i \in 1..Len(t) : t[i] = u[i] \/ t[i] = SwapCase(u[i])

Retained == {post_history[i].content : i \in 1..Len(post_history)}

\* C8: after add_to_history(t), and for as long as the entry is retained,
\* is_duplicate is true of every casing variant of t; it is true of a text only
\* when an entry with the same normalised text, hence hash, is retained.
C8_DuplicateUpToCase ==
    /\ obs.recorded => \A u \in HistTexts :
            IsCasingVariant(u, post) => is_duplicate(post_history, u)
    /\ \A c \in Retained, u \in HistTexts :
            IsCasingVariant(u, c) => is_duplicate(post_history, u)
    /\ \A u \in HistTexts :
            is_duplicate(post_history, u)
                => \E i \in 1..Len(post_history) :
                       /\ post_history[i].hash = md5_hexdigest(lower(u))
                       /\ \E c \in Retained : lower(c) = lower(u)

C8_Witness ==
    /\ obs.recorded /\ post = tAB
    /\ is_duplicate(post_history, tAb) /\ is_duplicate(post_history, taB)
    /\ ~is_duplicate(post_history, tBA)

\* C9: after every add_to_history the history holds at most 1000 entries, the
\* most recently appended ones in append order; 1001 calls from an empty
\* history leave exactly 1000 entries, the first recorded one not among them.
C9_KeepsLastThousand ==
    obs.recorded
        => /\ Len(post_history) = Min(Len(obs.log), HistoryCap)
           /\ \A i \in 1..Len(post_history) :
                  post_history[i] = obs.log[Len(obs.log) - Len(post_history) + i]
           /\ (obs.loaded = 0 /\ cycle = HistoryCap + 1)
                => /\ Len(post_history) = HistoryCap
                   /\ \A i \in 1..Len(post_history) : post_history[i] # obs.log[1]

C9_Witness ==
    /\ obs.recorded /\ obs.loaded = 0 /\ cycle = HistoryCap + 1
    /\ Len(post_history) = HistoryCap
    /\ post_history[1] = obs.log[2]
    /\ post_history[HistoryCap] = obs.log[HistoryCap + 1]

----------------------------------------------------------------------------
(* Claims about one post on a logged-in handle (specification SpecFit) *)

\* the limit of the running post: max_length_image with images, else max_length
Limit == IF svccall.images # <<>> THEN max_length_image ELSE max_length

\* C11: for a non-empty candidate list and the limit L, longest_allowed returns
\* a candidate; when some candidate is shorter than L it returns one of those,
\* of the greatest length among them; when none is, it returns the first
\* candidate of the list.
C11_LongestAllowed ==
    (svccall.active /\ ~svccall.wrap /\ svccall.request.status.kind = "list")
        => LET cands == svccall.request.status.v
               picked == svccall.wrapped[1]
               fits == {i \in 1..Len(cands) : Len(cands[i]) < Limit}
           IN  /\ \E i \in 1..Len(cands) : cands[i] = picked
               /\ fits # {} => /\ Len(picked) < Limit
                               /\ \A i \in fits : Len(cands[i]) <= Len(picked)
               /\ fits = {} => picked = cands[1]

C11_Witness ==
    /\ svccall.active /\ ~svccall.wrap
    /\ svccall.request.status = List(<<t301, t299, tAB>>)
    /\ svccall.wrapped = <<t299>>

\* the number of ellipsis characters of a fragment
Ellipses(frag) == Cardinality({i \in 1..Len(frag) : frag[i] = Ellipsis})

\* a step in which do_wrapped passes one more fragment to do_post
WrappedSend == pc = "do_post" /\ svccall.wrap /\ Len(obs'.sent) = Len(obs.sent) + 1

\* C12: every fragment do_wrapped passes to do_post is at most limit long, the
\* ellipsis counted; a text of at most limit characters is posted as the one
\* fragment equal to it, with no ellipsis; a longer text is posted in at least
\* two fragments, the first ending with one ellipsis and every later one
\* starting with one ellipsis.
C12_FragmentsFit ==
    [][WrappedSend
         => LET text == svccall.request.status.v
                k == Len(obs'.sent)
                frag == obs'.sent[k].text
            IN  /\ Len(frag) <= Limit
                /\ Len(text) <= Limit
                     => k = 1 /\ obs'.post_done /\ frag = text
                /\ Len(text) > Limit
                     => /\ obs'.post_done => k >= 2
                        /\ Ellipses(frag) = 1
                        /\ k = 1 => frag[Len(frag)] = Ellipsis
                        /\ k >= 2 => frag[1] = Ellipsis]_vars

\* C12, amended: every fragment do_wrapped passes to do_post is at most limit
\* long, the ellipsis counted; a text of at most limit characters is posted as
\* the one fragment equal to it, with no ellipsis; of a longer text that is
\* posted in at least two fragments, the first ends with one ellipsis and
\* every later one starts with one ellipsis, and a longer text that wraps to
\* one line is posted as that line with no ellipsis.
C12_FragmentsFitWhenSplit ==
    [][WrappedSend
         => LET text == svccall.request.status.v
                k == Len(obs'.sent)
                frag == obs'.sent[k].text
                single == k = 1 /\ obs'.post_done
            IN  /\ Len(frag) <= Limit
                /\ Len(text) <= Limit => single /\ frag = text
                /\ Len(text) > Limit
                     => /\ single => Ellipses(frag) = 0 /\ Len(frag) < Limit
                        /\ ~single => Ellipses(frag) = 1
                        /\ (k = 1 /\ ~single) => frag[Len(frag)] = Ellipsis
                        /\ k >= 2 => frag[1] = Ellipsis]_vars

C12_Witness ==
    /\ obs.post_done /\ Len(obs.sent) = 3
    /\ Len(obs.sent[1].text) = max_length
    /\ obs.sent[1].text[max_length] = Ellipsis
    /\ obs.sent[2].text[1] = Ellipsis /\ Len(obs.sent[2].text) = max_length
    /\ obs.sent[3].text = <<Ellipsis, "b", "b">>

----------------------------------------------------------------------------
(* Claims about the posts of a Bluesky handle (specification SpecService) *)

\* C13: the fragments of a wrapped post are posted in order; the first with the
\* caller's reply reference, the second with root and parent both the first
\* fragment's result r0, and every later one with root r0 and parent the
\* result of the fragment just before it.
C13_ReplyChain ==
    [][WrappedSend
         => LET k == Len(obs'.sent)
                call == obs'.sent[k]
            IN  /\ k = svccall.i /\ Len(obs.refs) = k - 1
                /\ call.text = Decorate(svccall.wrapped[k], k = 1, Len(svccall.wrapped))
                /\ k = 1 => call.reply = ReplyRef(svccall.request.in_reply_to_id)
                /\ k = 2 => call.reply = ReplyRef(ReplyDict(obs.refs[1], obs.refs[1]))
                /\ k > 2 => call.reply = ReplyRef(ReplyDict(obs.refs[1], obs.refs[k - 1]))]_vars

C13_Witness ==
    /\ obs.post_done /\ Len(obs.sent) = 3 /\ Len(obs.refs) = 3
    /\ obs.sent[1].reply # None
    /\ obs.refs[1] # obs.refs[2]
    /\ obs.sent[2].reply = ReplyRef(ReplyDict(obs.refs[1], obs.refs[1]))
    /\ obs.sent[3].reply = ReplyRef(ReplyDict(obs.refs[1], obs.refs[2]))

\* a step in which Service.post is called on the handle
PostCalled == pc = "svc_idle" /\ cycle' = cycle + 1

\* C14: on a handle that is not live, post is a no-op for every request: it
\* returns at once with no result, without a do_post, do_wrapped, auth() or
\* send call, and leaves Connected and the rate-limit expiry as they were.
C14_NotLiveIsNoOp ==
    /\ [](~live => pc # "do_post" /\ ~svccall.active /\ obs.sent = <<>>)
    /\ [][(PostCalled /\ ~live)
            => /\ pc' = "svc_idle" /\ obs'.post_done /\ obs'.raised = "none"
               /\ obs'.do_posts = 0 /\ obs'.auth_calls = 0 /\ obs'.sent = <<>>
               /\ obs'.result = None /\ obs'.refs = <<>>
               /\ obs'.auth = obs.auth
               /\ connected' = connected
               /\ login_ratelimit_expiry' = login_ratelimit_expiry]_vars

C14_Witness ==
    /\ ~live /\ cycle = 1 /\ pc = "svc_idle" /\ obs.post_done
    /\ connected /\ obs.auth.attempted
    /\ obs.do_posts = 0 /\ obs.sent = <<>> /\ obs.result = None

\* a step in which the running post passes one more request to the client
Send == pc = "do_post" /\ Len(obs'.sent) = Len(obs.sent) + 1

\* C19: a post keeps the first max_image_count of the supplied images, in their
\* order, and drops the rest; a wrapped post passes them with its first
\* fragment and posts every later fragment with no images.
C19_ImagesCutAndFirstOnly ==
    [][Send
         => LET k == Len(obs'.sent)
                call == obs'.sent[k]
                supplied == svccall.request.images
            IN  /\ k = 1
                     => /\ Len(call.images) = Min(Len(supplied), max_image_count)
                        /\ \A i \in 1..Len(call.images) :
                               call.images[i] = resize_to_target(supplied[i])
                /\ k > 1 => svccall.wrap /\ call.images = <<>>]_vars

C19_Witness ==
    /\ obs.post_done /\ Len(obs.sent) = 3
    /\ Len(obs.sent[1].images) = max_image_count
    /\ obs.sent[1].images[max_image_count] = resize_to_target(max_image_count)
    /\ obs.sent[2].images = <<>> /\ obs.sent[3].images = <<>>

\* a step in which the running post calls do_post
DoPostCalled == pc = "do_post" /\ obs'.do_posts = obs.do_posts + 1

\* C20: Connected starts false, becomes true only through a successful login
\* inside auth(), and is never reset once true, whatever auth(), post,
\* rate-limit and post-failure events follow; while it is true do_post does
\* not call auth(), so a failing send raises PostError with no login attempt.
C20_ConnectedIsMonotonic ==
    /\ [](pc = "svc_new" => ~connected)
    /\ [][connected => connected']_vars
    /\ [][(~connected /\ connected')
            => /\ obs'.auth_calls = obs.auth_calls + 1
               /\ obs'.auth.called /\ obs'.auth.attempted
               /\ obs'.auth.time = now
               /\ obs'.auth.login.kind = "ok"]_vars
    /\ [][(connected /\ DoPostCalled)
            => /\ obs'.auth_calls = obs.auth_calls /\ obs'.auth = obs.auth
               /\ Len(obs'.sent) = Len(obs.sent) + 1
               /\ obs'.raised \in {"none", "PostError"}
               /\ (obs'.raised = "PostError") = (Len(obs'.refs) = Len(obs.refs))]_vars

C20_Witness ==
    /\ connected /\ obs.connected_at_post /\ obs.post_done
    /\ obs.raised = "PostError"
    /\ obs.do_posts = 2 /\ Len(obs.sent) = 2 /\ Len(obs.refs) = 1
    /\ obs.auth_calls = 0

----------------------------------------------------------------------------
(* Claims about Bot.post (specification SpecBot) *)

\* C15: Bot.post rejects a candidate list given with wrap, and an empty
\* candidate list, with an error before any backend post is attempted and
\* without a result map; every request it takes to a backend is one text with
\* wrap, or one text or a non-empty candidate list without wrap.
C15_RequestInvariantEnforced ==
    LET called == botcall.idx > 0
        status == botcall.status
        broken == status.kind = "list" /\ (botcall.wrap \/ Len(status.v) = 0)
    IN  /\ (called /\ broken)
             => /\ pc = "error" /\ obs.raised = "ValueError"
                /\ obs.tried = <<>> /\ ~svccall.active
                /\ botcall.out = EmptyMap
        /\ obs.tried # <<>>
             => \/ botcall.wrap /\ status.kind = "str"
                \/ ~botcall.wrap /\ status.kind = "str"
                \/ ~botcall.wrap /\ status.kind = "list" /\ Len(status.v) >= 1

C15_Witness ==
    /\ botcall.idx > 0 /\ services # <<>> /\ live
    /\ botcall.status = List(<<tAB, tFull>>) /\ botcall.wrap
    /\ pc = "error" /\ obs.raised = "ValueError" /\ obs.tried = <<>>

\* C18: when Bot.post is given a reply target, each configured backend's post
\* receives the reference stored under its own name in the caller's mapping,
\* whichever backends were processed before it.
C18_ReplyReferencePerBackend ==
    (obs.post_done /\ obs.target # None /\ obs.raised # "ValueError")
        => /\ Len(obs.received) = Len(services)
           /\ \A i \in 1..Len(services) :
                  obs.received[i] = Subscript(obs.target, services[i]).value

----------------------------------------------------------------------------
(* Claims about the main loop (specifications Spec, SpecLoop) *)

\* C16: generate_post ends after at most max_attempts completion requests; it
\* returns a text only when the text is not empty and not a duplicate when
\* checked; after max_attempts duplicate or empty results in a row it returns
\* no content; a failed request ends the loop at once with no content and
\* raises nothing to main.
C16_GenerationBounded ==
    /\ [](/\ obs.gen_calls <= max_attempts
          /\ pc = "generate"
               => /\ obs.gen_calls < max_attempts /\ obs.gen_calls = attempt
                  /\ ~obs.gen_failed /\ obs.accepted = None
          /\ pc = "post"
               => /\ post # None /\ post # <<>> /\ obs.accepted = post
                  /\ ~is_duplicate(post_history, post)
                  /\ ~obs.gen_failed
          /\ pc = "no_post"
               => /\ post = None /\ obs.accepted = None
                  /\ obs.gen_failed \/ obs.gen_calls = max_attempts
          /\ obs.gen_failed => pc \in {"no_post", "exit"}
          /\ pc = "error" => obs.handed # None)
    /\ [][(pc = "generate" /\ pc' # "exit")
            => /\ obs'.gen_calls = obs.gen_calls + 1
               /\ pc' \in {"generate", "post", "no_post"}]_vars

C16_Witness ==
    /\ pc = "no_post" /\ cycle = 1
    /\ obs.gen_calls = max_attempts /\ ~obs.gen_failed
    /\ post_history = <<post_data(tAB, 0)>>

\* C17: a failure raised inside a main cycle does not end the main loop: the
\* cycle is given up and, after the sleep, a new cycle is started; the loop is
\* left through an interruption of the process only.
C17_FailureNeverEndsLoop ==
    /\ [][(pc \in MainPcs /\ pc' \notin MainPcs) => Interrupt]_vars
    /\ [][(pc = "error" /\ pc' # "exit")
            => /\ pc' = "generate" /\ cycle' = cycle + 1
               /\ now' = now + ErrorSleep
               /\ obs' = NoObs]_vars
    /\ (pc = "error" /\ cycle < MaxCycles) ~> (pc = "generate" \/ pc = "exit")

C17_Witness ==
    /\ pc = "generate" /\ cycle = 2 /\ now = ErrorSleep
    /\ live /\ services # <<>>

====
